---- MODULE Spec2Model ----
(***************************************************************************)
(* A model of leptos' <ErrorBoundary/> (leptos/src/error_boundary.rs):     *)
(* the error registry and hook, the built state toggling between children  *)
(* and fallback in the client modes (build, hydrate, hydrate_async), and   *)
(* the server modes (to_html_with_buf, to_html_async_with_buf).            *)
(***************************************************************************)
EXTENDS Integers, Sequences, FiniteSets, TLC

(***************************************************************************)
(* Bounds of the model.                                                    *)
(***************************************************************************)
\* number of leaf views (each a Result<_, _>) beneath the boundary
NLeaf == 2
\* largest identity the shared context's next_id hands out
MaxId == 3
\* largest number of nodes a built child or fallback state occupies
MaxNodes == 1

Leaf == 1..NLeaf
\* ErrorId::default(), the key used when there is no shared context
DefaultId == 0
Ids == 0..MaxId
\* the payload of an error the server recorded for this boundary (a leaf's
\* error carries the leaf's number)
ServerErr == NLeaf + 1
\* the payload of an error thrown through the hook taken from context, by a
\* descendant that is not one of the leaves
ContextErr == NLeaf + 2

VARIABLES
    hasSc,        \* Owner::current_shared_context() is Some
    scNext,       \* the shared context's identity counter
    scErrors,     \* what register_error recorded for this boundary: id -> error
    errors,       \* the hook's registry, ArcRwSignal<Errors>: id -> error
    failing,      \* the leaves whose Result is currently Err (and report to this hook)
    held,         \* per leaf, the identity its throw returned: <<>> or <<id>>
    mode,         \* which Render/RenderHtml entry point the pass uses
    phase,        \* where the boundary is in its life
    state,        \* Option<ErrorBoundaryViewState>: <<>> or <<[children, fallback]>>
    childNodes,   \* the number of nodes Chil::State occupies
    fallbackNodes,\* the number of nodes Fal::State occupies
    mounted,      \* the parent has mounted the boundary's state
    seenEmpty,    \* the value of errors_empty the effect read on its last run
    childBuilds,  \* how many child states were constructed (build or hydrate)
    calls,        \* the calls the last step made, in order
    buf,          \* the caller's buffer: tokens (to_html) or chunks (async)
    buf0,         \* the caller's buffer on entry
    position,     \* the caller's Position
    position0,    \* the caller's Position on entry
    kinds,        \* per leaf, what it pushes: "sync", "async" or "ooo"
    rx,           \* per leaf, the receiver it registered beneath the boundary
    resolved,     \* the leaves whose async chunk has resolved, in time order
    newBuf,       \* new_buf: the chunks the children pushed
    task,         \* where the deferred async chunk is
    idx,          \* the chunk of new_buf the deferred chunk is at
    myChunks,     \* my_chunks
    result,       \* what the deferred chunk resolved to: <<>> or <<chunks>>
    lateThrows,   \* the suspended leaves that threw after the synchronous pass
    boundaryId,   \* boundary_id, which is also the hook's id
    live,         \* the identities a throw returned and no clear has taken since
    seeded,       \* the identities whose entry is the one the registry was created with
    current,      \* the hook that is current: "none", "outer" or "inner"
    guards,       \* per activation site, the hook its guard restores: <<>> or <<h>>
    registry,     \* the registries of an outer boundary and one nested in it
    pass,         \* which entry point the pass over the two boundaries uses
    pc,           \* how far the synchronous part of that pass has come
    tasks,        \* per boundary, where its deferred async chunk is
    nestFailing,  \* the leaves around and inside the nested boundary that are Err
    oldState      \* the state rebuild replaced, as rebuild left it: <<>> or <<state>>

serverVars == <<buf, buf0, position, position0, kinds, rx, resolved, newBuf,
                task, idx, myChunks, result, lateThrows>>

hookVars == <<boundaryId, live, seeded>>

nestVars == <<current, guards, registry, pass, pc, tasks, nestFailing>>

vars == <<hasSc, scNext, scErrors, errors, failing, held, mode, phase, state,
          childNodes, fallbackNodes, mounted, seenEmpty, childBuilds, calls,
          serverVars, hookVars, nestVars, oldState>>

EmptyMap == [k \in {} |-> ServerErr]

(***************************************************************************)
(* Errors: a map ErrorId -> Error.                                         *)
(***************************************************************************)
is_empty(map) == DOMAIN map = {}

insert(map, key, error) ==
    [k \in DOMAIN map \cup {key} |-> IF k = key THEN error ELSE map[k]]

remove(map, key) == [k \in DOMAIN map \ {key} |-> map[k]]

(***************************************************************************)
(* ErrorBoundaryErrorHook.  A registry environment is                      *)
(*   [errors, next, recorded, id, live]                                    *)
(* the hook's map, the shared context's counter, what the shared context   *)
(* recorded for the boundary, the hook's id, and the identities that a     *)
(* throw returned and no clear has taken since.                            *)
(***************************************************************************)
\* throw: the key comes from the shared context's next_id, or is the default
\* (the hook's shared_context and Owner::current_shared_context() at the time
\* of the throw are the same context, hasSc)
ThrowKey(env) == IF hasSc THEN env.next + 1 ELSE DefaultId

\* throw putting the error under the default key, whatever key it returns
throw_InsertsUnderDefault(env, error) ==
    LET key == ThrowKey(env) IN
    [key |-> key,
     forwarded |-> IF hasSc THEN <<<<env.id, key, error>>>> ELSE <<>>,
     env |-> [errors   |-> insert(env.errors, DefaultId, error),
              next     |-> IF hasSc THEN env.next + 1 ELSE env.next,
              recorded |-> IF hasSc THEN insert(env.recorded, key, error)
                                    ELSE env.recorded,
              id       |-> env.id,
              live     |-> env.live \cup {key}]]

\* throw gives the key it returns, the register_error calls it made, each
\* <<boundary id, key, error>>, and the environment after it
throw(env, error) ==
    LET key == ThrowKey(env) IN
    [key |-> key,
     forwarded |-> IF hasSc THEN <<<<env.id, key, error>>>> ELSE <<>>,
     env |-> [errors   |-> insert(env.errors, key, error),
              next     |-> IF hasSc THEN env.next + 1 ELSE env.next,
              recorded |-> IF hasSc THEN insert(env.recorded, key, error)
                                    ELSE env.recorded,
              id       |-> env.id,
              live     |-> env.live \cup {key}]]

\* clear leaving the entry where it is
clear_KeepsEntry(map, id) == map

\* clear emptying the map when the identity is not in it
clear_DropsAllIfAbsent(map, id) ==
    IF id \in DOMAIN map THEN remove(map, id) ELSE [k \in {} |-> map[k]]

clear(map, id) == remove(map, id)

Env == [errors |-> errors, next |-> scNext, recorded |-> scErrors,
        id |-> boundaryId, live |-> live]

Min(S) == CHOOSE x \in S : \A y \in S : x <= y

\* the leaves of S render in document order; each one that is Err throws
RECURSIVE ThrowAll(_, _, _)
ThrowAll(S, env, h) ==
    IF S = {} THEN [env |-> env, held |-> h]
    ELSE LET l == Min(S)
             t == throw(env, l)
         IN  ThrowAll(S \ {l}, t.env, [h EXCEPT ![l] = <<t.key>>])

\* the counter stays within the identities of the model
CanThrow(n) == hasSc => scNext + n <= MaxId

(***************************************************************************)
(* Mountable: a built state is [nodes, attached, how, gen, snap]: the      *)
(* nodes it occupies, whether they are attached to the parent, whether it  *)
(* was built or hydrated, which construction made it, and (for a fallback) *)
(* the identities in the registry when the fallback function was called.   *)
(***************************************************************************)
Built(n, g, ids) ==
    [nodes |-> n, attached |-> FALSE, how |-> "built", gen |-> g, snap |-> ids]
\* hydration adopts the nodes that are already in the document
Hydrated(n, g, ids) ==
    [nodes |-> n, attached |-> TRUE, how |-> "hydrated", gen |-> g, snap |-> ids]

MMount(m) == [m EXCEPT !.attached = TRUE]
MUnmount(m) == [m EXCEPT !.attached = FALSE]
\* insert_before_this returns whether the insertion was possible
CanInsertBefore(m) == m.attached /\ m.nodes > 0
InsertBeforeThis(m, other) == IF CanInsertBefore(m) THEN MMount(other) ELSE other

Some(x) == <<x>>
None == <<>>
IsSome(o) == o # <<>>
Unwrap(o) == o[1]

(***************************************************************************)
(* impl Mountable for ErrorBoundaryViewState: every operation goes to the  *)
(* fallback when there is one, to the children otherwise.                  *)
(***************************************************************************)
StateMount(st) ==
    IF IsSome(st.fallback)
    THEN [st EXCEPT !.fallback = Some(MMount(Unwrap(st.fallback)))]
    ELSE [st EXCEPT !.children = MMount(st.children)]
\* StateUnmount going to the children whether or not there is a fallback
StateUnmount_Children(st) == [st EXCEPT !.children = MUnmount(st.children)]

StateUnmount(st) ==
    IF IsSome(st.fallback)
    THEN [st EXCEPT !.fallback = Some(MUnmount(Unwrap(st.fallback)))]
    ELSE [st EXCEPT !.children = MUnmount(st.children)]

\* the presentation the state shows
Visible(st) == IF IsSome(st.fallback) THEN Unwrap(st.fallback) ELSE st.children

\* mount of what is inserted: a built boundary state, or a state of a child
Mounted(other) ==
    IF "children" \in DOMAIN other THEN StateMount(other) ELSE MMount(other)

StateInsertBeforeThis(st, other) ==
    IF IsSome(st.fallback)
    THEN IF CanInsertBefore(Unwrap(st.fallback)) THEN Mounted(other) ELSE other
    ELSE IF CanInsertBefore(st.children) THEN Mounted(other) ELSE other

\* the elements a state occupies
MElements(m) == {<<m.how, m.gen, i>> : i \in 1..m.nodes}

StateElements(st) ==
    IF IsSome(st.fallback)
    THEN MElements(Unwrap(st.fallback))
    ELSE MElements(st.children)

\* the elements of the state that are attached to the parent
AttachedElements(st) ==
    (IF st.children.attached THEN MElements(st.children) ELSE {})
      \cup (IF IsSome(st.fallback) /\ Unwrap(st.fallback).attached
            THEN MElements(Unwrap(st.fallback)) ELSE {})

(***************************************************************************)
(* The effect closures.  Each takes the previous state and the registry    *)
(* (errors_empty.get() is is_empty of it) and gives the next state and the *)
(* calls it made.                                                          *)
(***************************************************************************)
\* the calls of m.insert_before_this(other)
InsertLog(anchor, what, m) ==
    IF CanInsertBefore(m) THEN <<anchor \o ".insert_before_this", what \o ".mount">>
    ELSE <<anchor \o ".insert_before_this">>

\* BuildEffect without its "yes errors, and was showing children" arm
BuildEffect_KeepsChildren(st, errs) ==
    IF is_empty(errs) /\ IsSome(st.fallback) THEN
        [st  |-> [children |-> InsertBeforeThis(Unwrap(st.fallback), st.children),
                  fallback |-> None],
         log |-> InsertLog("fallback", "children", Unwrap(st.fallback))
                   \o <<"fallback.unmount">>]
    ELSE [st |-> st, log |-> <<>>]

\* BuildEffect building the children anew when the errors are gone
BuildEffect_RebuildsChildren(st, errs) ==
    IF is_empty(errs) /\ IsSome(st.fallback) THEN
        [st  |-> [children |-> InsertBeforeThis(
                                  Unwrap(st.fallback),
                                  Built(st.children.nodes, st.children.gen + 1, {})),
                  fallback |-> None],
         log |-> <<"children.build">>
                   \o InsertLog("fallback", "children", Unwrap(st.fallback))
                   \o <<"fallback.unmount">>]
    ELSE IF ~is_empty(errs) /\ ~IsSome(st.fallback) THEN
        [st  |-> [children |-> MUnmount(st.children),
                  fallback |-> Some(InsertBeforeThis(
                                  st.children,
                                  Built(fallbackNodes, 0, DOMAIN errs)))],
         log |-> <<"fallback_fn", "fallback.build">>
                   \o InsertLog("children", "fallback", st.children)
                   \o <<"children.unmount">>]
    ELSE [st |-> st, log |-> <<>>]

\* BuildEffect making the fallback again whenever there are errors
BuildEffect_RefreshesFallback(st, errs) ==
    IF is_empty(errs) /\ IsSome(st.fallback) THEN
        [st  |-> [children |-> InsertBeforeThis(Unwrap(st.fallback), st.children),
                  fallback |-> None],
         log |-> InsertLog("fallback", "children", Unwrap(st.fallback))
                   \o <<"fallback.unmount">>]
    ELSE IF ~is_empty(errs) /\ ~IsSome(st.fallback) THEN
        [st  |-> [children |-> MUnmount(st.children),
                  fallback |-> Some(InsertBeforeThis(
                                  st.children,
                                  Built(fallbackNodes, 0, DOMAIN errs)))],
         log |-> <<"fallback_fn", "fallback.build">>
                   \o InsertLog("children", "fallback", st.children)
                   \o <<"children.unmount">>]
    ELSE IF ~is_empty(errs) THEN
        [st  |-> [st EXCEPT !.fallback =
                     Some([Unwrap(st.fallback) EXCEPT !.snap = DOMAIN errs])],
         log |-> <<"fallback_fn", "fallback.build">>]
    ELSE [st |-> st, log |-> <<>>]

\* BuildEffect unmounting the outgoing state before it splices the incoming one
BuildEffect_UnmountsFirst(st, errs) ==
    IF is_empty(errs) /\ IsSome(st.fallback) THEN
        [st  |-> [children |-> InsertBeforeThis(MUnmount(Unwrap(st.fallback)),
                                                st.children),
                  fallback |-> None],
         log |-> <<"fallback.unmount">>
                   \o InsertLog("fallback", "children", MUnmount(Unwrap(st.fallback)))]
    ELSE IF ~is_empty(errs) /\ ~IsSome(st.fallback) THEN
        [st  |-> [children |-> MUnmount(st.children),
                  fallback |-> Some(InsertBeforeThis(
                                  MUnmount(st.children),
                                  Built(fallbackNodes, 0, DOMAIN errs)))],
         log |-> <<"fallback_fn", "fallback.build", "children.unmount">>
                   \o InsertLog("children", "fallback", MUnmount(st.children))]
    ELSE [st |-> st, log |-> <<>>]

\* build: the closure's branch for prev = Some(state)
BuildEffect(st, errs) ==
    IF is_empty(errs) /\ IsSome(st.fallback) THEN
        \* no errors, and was showing fallback
        [st  |-> [children |-> InsertBeforeThis(Unwrap(st.fallback), st.children),
                  fallback |-> None],
         log |-> InsertLog("fallback", "children", Unwrap(st.fallback))
                   \o <<"fallback.unmount">>]
    ELSE IF ~is_empty(errs) /\ ~IsSome(st.fallback) THEN
        \* yes errors, and was showing children
        [st  |-> [children |-> MUnmount(st.children),
                  fallback |-> Some(InsertBeforeThis(
                                  st.children,
                                  Built(fallbackNodes, 0, DOMAIN errs)))],
         log |-> <<"fallback_fn", "fallback.build">>
                   \o InsertLog("children", "fallback", st.children)
                   \o <<"children.unmount">>]
    ELSE [st |-> st, log |-> <<>>]

\* BuildInitial never making the fallback
BuildInitial_NoFallback(children, errs) ==
    [st  |-> [children |-> children, fallback |-> None],
     log |-> <<>>]

\* BuildInitial deciding from the errors the server recorded, not the registry
BuildInitial_FromRecorded(children, errs) ==
    [st  |-> [children |-> children,
              fallback |-> IF \E k \in DOMAIN errs : errs[k] = ServerErr
                           THEN Some(Built(fallbackNodes, 0, DOMAIN errs))
                           ELSE None],
     log |-> IF \E k \in DOMAIN errs : errs[k] = ServerErr
             THEN <<"fallback_fn", "fallback.build">> ELSE <<>>]

\* build: the closure's branch for prev = None
BuildInitial(children, errs) ==
    [st  |-> [children |-> children,
              fallback |-> IF ~is_empty(errs)
                           THEN Some(Built(fallbackNodes, 0, DOMAIN errs))
                           ELSE None],
     log |-> IF ~is_empty(errs) THEN <<"fallback_fn", "fallback.build">> ELSE <<>>]

\* HydrateEffect hydrating the fallback, as the first run does, not building it
HydrateEffect_HydratesFallback(st, errs) ==
    IF is_empty(errs) /\ IsSome(st.fallback) THEN
        [st  |-> [children |-> InsertBeforeThis(Unwrap(st.fallback), st.children),
                  fallback |-> None],
         log |-> InsertLog("fallback", "children", Unwrap(st.fallback))
                   \o <<"fallback.unmount">>]
    ELSE IF ~is_empty(errs) /\ ~IsSome(st.fallback) THEN
        [st  |-> [children |-> MUnmount(st.children),
                  fallback |-> Some(Hydrated(fallbackNodes, 0, DOMAIN errs))],
         log |-> <<"fallback_fn", "fallback.hydrate", "children.unmount">>]
    ELSE [st |-> st, log |-> <<>>]

\* hydrate: the closure's branch for prev = Some(state)
HydrateEffect(st, errs) ==
    IF is_empty(errs) /\ IsSome(st.fallback) THEN
        [st  |-> [children |-> InsertBeforeThis(Unwrap(st.fallback), st.children),
                  fallback |-> None],
         log |-> InsertLog("fallback", "children", Unwrap(st.fallback))
                   \o <<"fallback.unmount">>]
    ELSE IF ~is_empty(errs) /\ ~IsSome(st.fallback) THEN
        [st  |-> [children |-> MUnmount(st.children),
                  fallback |-> Some(InsertBeforeThis(
                                  st.children,
                                  Built(fallbackNodes, 0, DOMAIN errs)))],
         log |-> <<"fallback_fn", "fallback.build">>
                   \o InsertLog("children", "fallback", st.children)
                   \o <<"children.unmount">>]
    ELSE [st |-> st, log |-> <<>>]

\* HydrateAsyncInitial deciding from the errors the registry was created with
HydrateAsyncInitial_FromSeeded(errs, after, gen) ==
    IF \A k \in DOMAIN errs : errs[k] # ServerErr
    THEN [st  |-> [children |-> Hydrated(childNodes, gen, {}), fallback |-> None],
          log |-> <<"children.hydrate_async">>]
    ELSE [st  |-> [children |-> Built(childNodes, gen, {}),
                   fallback |-> Some(Hydrated(fallbackNodes, 0, DOMAIN after))],
          log |-> <<"children.build", "fallback_fn", "fallback.hydrate_async">>]

\* HydrateInitial building the fallback instead of hydrating it
HydrateInitial_BuildsFallback(errs, after, gen) ==
    IF is_empty(errs)
    THEN [st  |-> [children |-> Hydrated(childNodes, gen, {}), fallback |-> None],
          log |-> <<"children.hydrate">>]
    ELSE [st  |-> [children |-> Built(childNodes, gen, {}),
                   fallback |-> Some(Built(fallbackNodes, 0, DOMAIN after))],
          log |-> <<"children.build", "fallback_fn", "fallback.build">>]

\* hydrate: the closure's branch for prev = None.  With no errors in errs the
\* children are hydrated; otherwise they are built and the fallback is
\* hydrated.  after is the registry once the children have been rendered,
\* which is what the fallback function is given.
HydrateInitial(errs, after, gen) ==
    IF is_empty(errs)
    THEN [st  |-> [children |-> Hydrated(childNodes, gen, {}), fallback |-> None],
          log |-> <<"children.hydrate">>]
    ELSE [st  |-> [children |-> Built(childNodes, gen, {}),
                   fallback |-> Some(Hydrated(fallbackNodes, 0, DOMAIN after))],
          log |-> <<"children.build", "fallback_fn", "fallback.hydrate">>]

\* hydrate_async: the future `initial`, the same decision
HydrateAsyncInitial(errs, after, gen) ==
    IF is_empty(errs)
    THEN [st  |-> [children |-> Hydrated(childNodes, gen, {}), fallback |-> None],
          log |-> <<"children.hydrate_async">>]
    ELSE [st  |-> [children |-> Built(childNodes, gen, {}),
                   fallback |-> Some(Hydrated(fallbackNodes, 0, DOMAIN after))],
          log |-> <<"children.build", "fallback_fn", "fallback.hydrate_async">>]

\* hydrate_async: the closure given to new_with_async_value
HydrateAsyncEffect(st, errs) ==
    IF is_empty(errs) /\ IsSome(st.fallback) THEN
        [st  |-> [children |-> InsertBeforeThis(Unwrap(st.fallback), st.children),
                  fallback |-> None],
         log |-> InsertLog("fallback", "children", Unwrap(st.fallback))
                   \o <<"fallback.unmount">>]
    ELSE IF ~is_empty(errs) /\ ~IsSome(st.fallback) THEN
        [st  |-> [children |-> MUnmount(st.children),
                  fallback |-> Some(InsertBeforeThis(
                                  st.children,
                                  Built(fallbackNodes, 0, DOMAIN errs)))],
         log |-> <<"fallback_fn", "fallback.build">>
                   \o InsertLog("children", "fallback", st.children)
                   \o <<"children.unmount">>]
    ELSE [st |-> st, log |-> <<>>]

(***************************************************************************)
(* The client pass: one boundary, built, hydrated or hydrated async.       *)
(***************************************************************************)
\* what the server recorded for the boundary (none without a shared context)
Seeds == {[k \in S |-> ServerErr] : S \in SUBSET (2..MaxId)}

\* the registry and the hook before the component function has run
InitRegistry ==
    /\ hasSc \in BOOLEAN
    /\ scNext = 0
    /\ scErrors \in (IF hasSc THEN Seeds ELSE {EmptyMap})
    /\ errors = EmptyMap
    /\ held = [l \in Leaf |-> None]
    /\ phase = "new"
    /\ boundaryId = DefaultId
    /\ live = {}
    /\ seeded = {}

\* no built state: the server modes build none
InitNoState ==
    /\ state = None
    /\ childNodes = 0
    /\ fallbackNodes = 0
    /\ mounted = FALSE
    /\ seenEmpty = None
    /\ childBuilds = 0
    /\ calls = <<>>
    /\ oldState = None

\* no buffers: the client modes serialize nothing
InitNoServer ==
    /\ buf = <<>>
    /\ buf0 = <<>>
    /\ position = "FirstChild"
    /\ position0 = "FirstChild"
    /\ kinds = [l \in Leaf |-> "sync"]
    /\ rx = [l \in Leaf |-> "none"]
    /\ resolved = <<>>
    /\ newBuf = <<>>
    /\ task = "none"
    /\ idx = 0
    /\ myChunks = <<>>
    /\ result = None
    /\ lateThrows = {}

\* the boundaries whose hooks a pass over several boundaries activates: one,
\* a second nested in it, and a third whose deferred chunk is polled on its own
Hooks == {"outer", "inner", "sibling"}
\* the places that hold a guard: the entry point, an effect run, the deferred
\* async chunk
Sites == Hooks \X {"fn", "effect", "task"}

\* one boundary alone: no pass over several boundaries
InitNoNest ==
    /\ current = "none"
    /\ guards = [s \in Sites |-> None]
    /\ registry = [h \in Hooks |-> EmptyMap]
    /\ pass = "none"
    /\ pc = 0
    /\ tasks = [h \in Hooks |-> "none"]
    /\ nestFailing = {}

Init ==
    /\ InitRegistry
    /\ failing \in SUBSET Leaf
    /\ mode \in {"build", "hydrate", "hydrate_async"}
    /\ state = None
    /\ childNodes \in 0..MaxNodes
    /\ fallbackNodes \in 0..MaxNodes
    /\ mounted = FALSE
    /\ seenEmpty = None
    /\ childBuilds = 0
    /\ calls = <<>>
    /\ oldState = None
    /\ InitNoServer
    /\ InitNoNest

\* the component function: the boundary takes its id from the shared context
\* and seeds the registry with the errors recorded for it
ErrorBoundary ==
    /\ phase = "new"
    /\ phase' = "constructed"
    /\ scNext' = IF hasSc THEN scNext + 1 ELSE scNext
    /\ errors' = IF hasSc THEN scErrors ELSE EmptyMap
    /\ boundaryId' = IF hasSc THEN scNext + 1 ELSE DefaultId
    /\ seeded' = IF hasSc THEN DOMAIN scErrors ELSE {}
    /\ live' = live
    /\ UNCHANGED <<oldState, nestVars, serverVars, hasSc, scErrors, failing, held, mode, state, childNodes,
                   fallbackNodes, mounted, seenEmpty, childBuilds, calls>>

\* the registry after the leaves that are Err have thrown, in document order
AfterChildren == ThrowAll(failing, Env, held)

\* build: the children are built under the hook, then the effect runs once
build ==
    /\ phase = "constructed" /\ mode = "build"
    /\ CanThrow(Cardinality(failing))
    /\ LET t == AfterChildren
           empty == is_empty(t.env.errors)
           r == BuildInitial(Built(childNodes, childBuilds + 1, {}), t.env.errors)
       IN  /\ errors' = t.env.errors
           /\ scNext' = t.env.next
           /\ scErrors' = t.env.recorded
           /\ held' = t.held
           /\ live' = t.env.live
           /\ seeded' = seeded \ t.env.live
           /\ state' = Some(r.st)
           /\ seenEmpty' = Some(empty)
           /\ calls' = <<"children.build">> \o r.log
    /\ childBuilds' = childBuilds + 1
    /\ phase' = "built"
    /\ UNCHANGED <<oldState, nestVars, boundaryId, serverVars, hasSc, failing, mode, childNodes, fallbackNodes, mounted>>

\* hydrate: the effect's first run decides from the registry, then hydrates
\* or builds the children, which throw as they are rendered
hydrate ==
    /\ phase = "constructed" /\ mode = "hydrate"
    /\ CanThrow(Cardinality(failing))
    /\ LET empty == is_empty(errors)
           t == AfterChildren
           r == HydrateInitial(errors, t.env.errors, childBuilds + 1)
       IN  /\ errors' = t.env.errors
           /\ scNext' = t.env.next
           /\ scErrors' = t.env.recorded
           /\ held' = t.held
           /\ live' = t.env.live
           /\ seeded' = seeded \ t.env.live
           /\ state' = Some(r.st)
           /\ seenEmpty' = Some(empty)
           /\ calls' = r.log
    /\ childBuilds' = childBuilds + 1
    /\ phase' = "built"
    /\ mounted' = TRUE
    /\ UNCHANGED <<oldState, nestVars, boundaryId, serverVars, hasSc, failing, mode, childNodes, fallbackNodes>>

\* hydrate_async is called: the future exists, nothing has run yet
hydrate_async_call ==
    /\ phase = "constructed" /\ mode = "hydrate_async"
    /\ phase' = "called"
    /\ UNCHANGED <<oldState, nestVars, hookVars, serverVars, hasSc, scNext, scErrors, errors, failing, held, mode, state,
                   childNodes, fallbackNodes, mounted, seenEmpty, childBuilds,
                   calls>>

\* between the call and the first poll, a descendant that took the hook from
\* context (provide_context) throws through it
ContextThrow ==
    /\ phase = "called"
    /\ ContextErr \notin {errors[k] : k \in DOMAIN errors}
    /\ CanThrow(1)
    /\ LET t == throw(Env, ContextErr)
       IN  /\ errors' = t.env.errors
           /\ scNext' = t.env.next
           /\ scErrors' = t.env.recorded
           /\ live' = t.env.live
           /\ seeded' = seeded \ t.env.live
    /\ calls' = <<"throw">>
    /\ UNCHANGED <<oldState, nestVars, boundaryId, serverVars, hasSc, failing, held,
                   mode, phase, state, childNodes, fallbackNodes, mounted,
                   seenEmpty, childBuilds>>

\* hydrate_async is polled: `initial` decides from the registry and awaits the
\* children's (or the fallback's) hydrate_async.  The future activates no
\* hook: the children render under the hook that is current where the future
\* is polled.  If that is this boundary's hook (own) the leaves that are Err
\* throw into its registry; if not, they report to another hook and are none
\* of this boundary's failing leaves.
hydrate_async_initial ==
    /\ phase = "called"
    /\ \E own \in BOOLEAN :
          /\ own => CanThrow(Cardinality(failing))
          /\ LET t == IF own THEN AfterChildren ELSE [env |-> Env, held |-> held]
                 r == HydrateAsyncInitial(errors, t.env.errors, childBuilds + 1)
             IN  /\ errors' = t.env.errors
                 /\ scNext' = t.env.next
                 /\ scErrors' = t.env.recorded
                 /\ held' = t.held
                 /\ live' = t.env.live
                 /\ seeded' = seeded \ t.env.live
                 /\ state' = Some(r.st)
                 /\ calls' = r.log
          /\ failing' = IF own THEN failing ELSE {}
    /\ childBuilds' = childBuilds + 1
    /\ phase' = "awaiting"
    /\ mounted' = TRUE
    /\ UNCHANGED <<oldState, nestVars, boundaryId, serverVars, hasSc, mode, childNodes, fallbackNodes, seenEmpty>>

\* hydrate_async_resolved returning the awaited value as it is
hydrate_async_resolved_ReturnsInitial ==
    /\ phase = "awaiting"
    /\ state' = state
    /\ seenEmpty' = Some(is_empty(errors))
    /\ calls' = <<>>
    /\ phase' = "built"
    /\ UNCHANGED <<oldState, nestVars, hookVars, serverVars, hasSc, scNext, scErrors, errors, failing, held, mode,
                   childNodes, fallbackNodes, mounted, childBuilds>>

\* the awaited value arrives: new_with_async_value runs the closure on it
hydrate_async_resolved ==
    /\ phase = "awaiting"
    /\ LET empty == is_empty(errors)
           r == HydrateAsyncEffect(Unwrap(state), errors)
       IN  /\ state' = Some(r.st)
           /\ seenEmpty' = Some(empty)
           /\ calls' = r.log
    /\ phase' = "built"
    /\ UNCHANGED <<oldState, nestVars, hookVars, serverVars, hasSc, scNext, scErrors, errors, failing, held, mode,
                   childNodes, fallbackNodes, mounted, childBuilds>>

\* the closure of the mode the state was made in
Effect(st, errs) ==
    CASE mode = "build" -> BuildEffect(st, errs)
      [] mode = "hydrate" -> HydrateEffect(st, errs)
      [] OTHER -> HydrateAsyncEffect(st, errs)

\* the reactive system reruns the effect
EffectRun ==
    /\ phase = "built"
    /\ LET empty == is_empty(errors)
           r == Effect(Unwrap(state), errors)
       IN  /\ state' = Some(r.st)
           /\ seenEmpty' = Some(empty)
           /\ calls' = r.log
    /\ UNCHANGED <<oldState, nestVars, hookVars, serverVars, hasSc, scNext, scErrors, errors, failing, held, mode, phase,
                   childNodes, fallbackNodes, mounted, childBuilds>>

\* the parent mounts the boundary's state
Mount ==
    /\ phase = "built" /\ ~mounted
    /\ state' = Some(StateMount(Unwrap(state)))
    /\ mounted' = TRUE
    /\ calls' = <<"state.mount">>
    /\ UNCHANGED <<oldState, nestVars, hookVars, serverVars, hasSc, scNext, scErrors, errors, failing, held, mode, phase,
                   childNodes, fallbackNodes, seenEmpty, childBuilds>>

\* Unmount emptying the registry of the boundary it takes out of the document
Unmount_EmptiesRegistry ==
    /\ phase = "built" /\ mounted
    /\ state' = Some(StateUnmount(Unwrap(state)))
    /\ mounted' = FALSE
    /\ calls' = <<"state.unmount">>
    /\ errors' = EmptyMap
    /\ UNCHANGED <<oldState, nestVars, hookVars, serverVars, hasSc, scNext, scErrors, failing, held, mode, phase,
                   childNodes, fallbackNodes, seenEmpty, childBuilds>>

\* the parent unmounts the boundary's state
Unmount ==
    /\ phase = "built" /\ mounted
    /\ state' = Some(StateUnmount(Unwrap(state)))
    /\ mounted' = FALSE
    /\ calls' = <<"state.unmount">>
    /\ UNCHANGED <<oldState, nestVars, hookVars, serverVars, hasSc, scNext, scErrors, errors, failing, held, mode, phase,
                   childNodes, fallbackNodes, seenEmpty, childBuilds>>

\* a leaf's Result turns Err: its render step throws and keeps the identity
LeafFail(l) ==
    /\ phase \in {"awaiting", "built"}
    /\ l \notin failing
    /\ CanThrow(1)
    /\ LET t == throw(Env, l)
       IN  /\ errors' = t.env.errors
           /\ scNext' = t.env.next
           /\ scErrors' = t.env.recorded
           /\ held' = [held EXCEPT ![l] = Some(t.key)]
           /\ live' = t.env.live
           /\ seeded' = seeded \ t.env.live
    /\ failing' = failing \cup {l}
    /\ calls' = <<"throw">>
    /\ UNCHANGED <<oldState, nestVars, boundaryId, serverVars, hasSc, mode, phase, state, childNodes, fallbackNodes,
                   mounted, seenEmpty, childBuilds>>
\* LeafRecover taking the error out of the shared context as well
LeafRecover_ClearsContext(l) ==
    /\ phase \in {"awaiting", "built"}
    /\ l \in failing
    /\ errors' = clear(errors, Unwrap(held[l]))
    /\ scErrors' = clear(scErrors, Unwrap(held[l]))
    /\ live' = live \ {Unwrap(held[l])}
    /\ seeded' = seeded \ {Unwrap(held[l])}
    /\ held' = [held EXCEPT ![l] = None]
    /\ failing' = failing \ {l}
    /\ calls' = <<"clear">>
    /\ UNCHANGED <<oldState, nestVars, boundaryId, serverVars, hasSc, scNext, mode, phase, state, childNodes,
                   fallbackNodes, mounted, seenEmpty, childBuilds>>

\* a leaf's Result turns Ok: it clears the identity its throw returned
LeafRecover(l) ==
    /\ phase \in {"awaiting", "built"}
    /\ l \in failing
    /\ errors' = clear(errors, Unwrap(held[l]))
    /\ live' = live \ {Unwrap(held[l])}
    /\ seeded' = seeded \ {Unwrap(held[l])}
    /\ held' = [held EXCEPT ![l] = None]
    /\ failing' = failing \ {l}
    /\ calls' = <<"clear">>
    /\ UNCHANGED <<oldState, nestVars, boundaryId, serverVars, hasSc, scNext, scErrors, mode, phase, state, childNodes,
                   fallbackNodes, mounted, seenEmpty, childBuilds>>

\* the errors a caller of the hook throws
Payloads == Leaf \cup {ContextErr}

\* the render step l calls throw on the hook, with the error e, and keeps the
\* identity it is given; nothing says it has cleared an earlier one
HookThrow(l, e) ==
    /\ phase = "constructed"
    /\ CanThrow(1)
    /\ LET t == throw(Env, e)
       IN  /\ errors' = t.env.errors
           /\ scNext' = t.env.next
           /\ scErrors' = t.env.recorded
           /\ held' = [held EXCEPT ![l] = Some(t.key)]
           /\ live' = t.env.live
           /\ seeded' = seeded \ t.env.live
    /\ calls' = <<"throw">>
    /\ UNCHANGED <<oldState, nestVars, boundaryId, serverVars, hasSc, failing, mode,
                   phase, state, childNodes, fallbackNodes, mounted, seenEmpty,
                   childBuilds>>

\* someone calls clear on the hook with the identity id, held or not
HookClear(id) ==
    /\ phase # "new"
    /\ errors' = clear(errors, id)
    /\ live' = live \ {id}
    /\ seeded' = seeded \ {id}
    /\ calls' = <<"clear">>
    /\ UNCHANGED <<oldState, nestVars, boundaryId, serverVars, hasSc, scNext, scErrors,
                   failing, held, mode, phase, state, childNodes, fallbackNodes,
                   mounted, seenEmpty, childBuilds>>

Next ==
    \/ ErrorBoundary
    \/ build
    \/ hydrate
    \/ hydrate_async_call
    \/ ContextThrow
    \/ hydrate_async_initial
    \/ hydrate_async_resolved
    \/ EffectRun
    \/ Mount
    \/ Unmount
    \/ \E l \in Leaf : LeafFail(l)
    \/ \E l \in Leaf : LeafRecover(l)
    \/ \E id \in Ids : id \notin DOMAIN errors /\ HookClear(id)

Spec == Init /\ [][Next]_vars

(***************************************************************************)
(* The hook alone: a boundary is constructed, and throw and clear are      *)
(* called on its hook in any order, with any identity.                     *)
(***************************************************************************)
InitHook ==
    /\ InitRegistry
    /\ failing = {}
    /\ mode = "hook"
    /\ InitNoState
    /\ InitNoServer
    /\ InitNoNest

NextHook ==
    \/ ErrorBoundary
    \/ \E l \in Leaf, e \in Payloads : HookThrow(l, e)
    \/ \E id \in Ids : HookClear(id)

SpecHook == InitHook /\ [][NextHook]_vars

(***************************************************************************)
(* rebuild: the parent renders the component again, which makes a new view *)
(* with a new hook and registry, and rebuilds the state it holds from it.  *)
(***************************************************************************)
\* what the shared context holds for the new boundary's id: nothing, or an
\* error the server recorded
RebuildSeeds == {EmptyMap, [k \in {MaxId} |-> ServerErr]}

\* the component function runs again: a new id, a new registry seeded from
\* the shared context, new children whose leaves are Ok or Err
Rerender ==
    /\ phase = "built" /\ mode = "build" /\ oldState = None
    /\ CanThrow(1)
    /\ phase' = "rerendered"
    /\ scNext' = IF hasSc THEN scNext + 1 ELSE scNext
    /\ boundaryId' = IF hasSc THEN scNext + 1 ELSE DefaultId
    /\ errors' \in (IF hasSc THEN RebuildSeeds ELSE {EmptyMap})
    /\ scErrors' = errors'
    /\ seeded' = DOMAIN errors'
    /\ live' = {}
    /\ failing' \in SUBSET Leaf
    /\ held' = [l \in Leaf |-> None]
    /\ calls' = <<>>
    /\ UNCHANGED <<oldState, nestVars, serverVars, hasSc, mode, state, childNodes,
                   fallbackNodes, mounted, seenEmpty, childBuilds>>

\* the calls of old.insert_before_this(state) and old.unmount()
RebuildLog(st) ==
    (IF CanInsertBefore(Visible(st))
     THEN <<"old.insert_before_this", "state.mount">>
     ELSE <<"old.insert_before_this">>) \o <<"old.unmount">>

\* rebuild: self.build() makes the new state, which replaces the old one in
\* the caller's slot; the new state is inserted before the old one and the
\* old one is unmounted
rebuild ==
    /\ phase = "rerendered"
    /\ CanThrow(Cardinality(failing))
    /\ LET t == AfterChildren
           r == BuildInitial(Built(childNodes, childBuilds + 1, {}), t.env.errors)
       IN  /\ errors' = t.env.errors
           /\ scNext' = t.env.next
           /\ scErrors' = t.env.recorded
           /\ held' = t.held
           /\ live' = t.env.live
           /\ seeded' = seeded \ t.env.live
           /\ state' = Some(StateInsertBeforeThis(Unwrap(state), r.st))
           /\ oldState' = Some(StateUnmount(Unwrap(state)))
           /\ seenEmpty' = Some(is_empty(t.env.errors))
           /\ calls' = <<"children.build">> \o r.log \o RebuildLog(Unwrap(state))
    /\ childBuilds' = childBuilds + 1
    /\ phase' = "built"
    /\ UNCHANGED <<nestVars, boundaryId, serverVars, hasSc, failing, mode,
                   childNodes, fallbackNodes, mounted>>

InitRebuild == Init /\ mode = "build"

NextRebuild ==
    \/ ErrorBoundary
    \/ build
    \/ EffectRun
    \/ Mount
    \/ Unmount
    \/ \E l \in Leaf : LeafFail(l)
    \/ \E l \in Leaf : LeafRecover(l)
    \/ Rerender
    \/ rebuild

SpecRebuild == InitRebuild /\ [][NextRebuild]_vars

(***************************************************************************)
(* Properties of the client pass.                                          *)
(***************************************************************************)
HasState == phase \in {"awaiting", "built"}
St == Unwrap(state)
ShowingFallback == HasState /\ IsSome(St.fallback)
ShowingChildren == HasState /\ ~IsSome(St.fallback)
FallbackAttached == ShowingFallback /\ Unwrap(St.fallback).attached
ChildrenAttached == HasState /\ St.children.attached
\* no run of the effect is due: it has read the current value of errors_empty
Settled == seenEmpty = Some(is_empty(errors))
\* this step is a run of the effect closure on a previous state
EffectStep == EffectRun \/ hydrate_async_resolved

\* C1: while the built state is mounted, exactly one of the child state and
\* the fallback state is attached to the parent, never both and never neither.
C1_ExactlyOneAttached ==
    (phase = "built" /\ mounted) => (ChildrenAttached # FallbackAttached)

\* C2: when no run of the effect is due, the boundary holds a fallback state
\* if and only if its registry is non-empty, and while it holds one the
\* children, all of them, are detached.
C2_FallbackIffErrors ==
    (phase = "built" /\ Settled) =>
        /\ ShowingFallback <=> ~is_empty(errors)
        /\ ShowingFallback => ~ChildrenAttached

\* C2's case: one run of the effect after a leaf's throw has replaced the
\* children, of which one did not throw, by the fallback.
C2_Witness ==
    /\ phase = "built" /\ Settled /\ ShowingFallback
    /\ failing # {} /\ failing # Leaf
    /\ Len(calls) > 0 /\ calls[Len(calls)] = "children.unmount"

\* this step is build, which ends with the first run of build's effect
FirstBuild == phase = "constructed" /\ mode = "build" /\ phase' = "built"

\* C3: a registry that holds an error when the boundary is constructed makes
\* the state produced by the first run of build's effect hold a fallback.
C3_PrepopulatedShowsFallback ==
    [][(FirstBuild /\ ~is_empty(errors)) => IsSome(Unwrap(state').fallback)]_vars

\* C3's case: build has just run on a seeded registry, no leaf having thrown.
C3_Witness ==
    /\ phase = "built" /\ mode = "build" /\ failing = {}
    /\ calls = <<"children.build", "fallback_fn", "fallback.build">>
    /\ ShowingFallback /\ ~is_empty(errors)

\* C4 as stated: a registry that is empty when the boundary is constructed
\* makes the state produced by the first build hold no fallback.
C4_EmptyAtConstructionShowsChildren ==
    [][(FirstBuild /\ is_empty(errors)) => ~IsSome(Unwrap(state').fallback)]_vars

\* C4 amended: the state produced by the first build holds a fallback if and
\* only if the registry was non-empty at construction or a child threw while
\* the children were built.
C4_InitialFallbackIffErrorsAtFirstRun ==
    [][FirstBuild =>
         (IsSome(Unwrap(state').fallback) <=> ~(is_empty(errors) /\ failing = {}))]_vars

\* C4's case: build has just run on an empty registry and shows the children.
C4_Witness ==
    /\ phase = "built" /\ mode = "build" /\ calls = <<"children.build">>
    /\ ShowingChildren /\ is_empty(errors)

\* C5: the child state is constructed once, and every step after that keeps
\* it: the same construction, the same nodes.
C5_ChildStateRetained ==
    /\ [](HasState => childBuilds = 1 /\ St.children.gen = 1)
    /\ [][HasState =>
            /\ childBuilds' = childBuilds
            /\ Unwrap(state').children.gen = St.children.gen
            /\ Unwrap(state').children.how = St.children.how
            /\ Unwrap(state').children.nodes = St.children.nodes]_vars

\* C5's case: the effect has just brought back the children that were hidden
\* behind the fallback.
C5_Witness ==
    /\ phase = "built" /\ ShowingChildren /\ ChildrenAttached
    /\ calls = <<"fallback.insert_before_this", "children.mount", "fallback.unmount">>
    /\ St.children.gen = 1 /\ childBuilds = 1

\* this step is the initial hydration step of hydrate or hydrate_async
FirstHydrate ==
    \/ phase = "constructed" /\ mode = "hydrate" /\ phase' = "built"
    \/ phase = "called" /\ phase' = "awaiting"

\* C9: the initial hydration step hydrates the children and makes no fallback
\* when the registry is empty; otherwise it hydrates the fallback and builds
\* the children detached.
C9_InitialHydration ==
    [][FirstHydrate =>
         LET st == Unwrap(state') IN
         IF is_empty(errors)
         THEN st.children.how = "hydrated" /\ ~IsSome(st.fallback)
         ELSE /\ IsSome(st.fallback)
              /\ Unwrap(st.fallback).how = "hydrated"
              /\ Unwrap(st.fallback).attached
              /\ st.children.how = "built"
              /\ ~st.children.attached]_vars

\* C9's case: hydrate has just run on a registry the server had filled.
C9_Witness ==
    /\ phase = "built" /\ mode = "hydrate"
    /\ calls = <<"children.build", "fallback_fn", "fallback.hydrate">>
    /\ FallbackAttached /\ St.children.how = "built" /\ ~ChildrenAttached

\* C10: a run of the effect that finds the children shown and the registry
\* empty, or the fallback shown and the registry non-empty, makes no call and
\* leaves the state as it was.
C10_NoChangeNoOp ==
    [][(EffectStep /\ (ShowingFallback <=> ~is_empty(errors))) =>
         (state' = state /\ calls' = <<>>)]_vars

\* C10's case: the effect has just run with the fallback shown, on a registry
\* whose identities are not those the fallback was made from.
C10_Witness ==
    /\ phase = "built" /\ calls = <<>> /\ ShowingFallback
    /\ Unwrap(St.fallback).snap # DOMAIN errors /\ ~is_empty(errors)

(***************************************************************************)
(* Server rendering.  Text is a sequence of tokens <<kind, n>>; a stream   *)
(* is a sequence of chunks [kind, tok], kind "Sync", "Async" or            *)
(* "OutOfOrder", in document order.                                        *)
(***************************************************************************)
Tok(k, n) == <<k, n>>
Sync(t) == [kind |-> "Sync", tok |-> t]
Async(l) == [kind |-> "Async", tok |-> Tok("future", l)]
OutOfOrder(l) == [kind |-> "OutOfOrder", tok |-> Tok("future", l)]
\* an out-of-order chunk whose chunks have been awaited and wrapped again
OutOfOrderReady(l) == [kind |-> "OutOfOrder", tok |-> Tok("ready", l)]
\* the chunks the async chunk of leaf l resolves to
Content(l) == <<Sync(Tok("a", l)), Sync(Tok("b", l))>>

\* the fallback's serialization
FallbackHtml == <<Tok("F", 0)>>
\* a Result leaf serializes its content, or throws and leaves a placeholder
LeafHtml(l) == IF l \in failing THEN Tok("!", l) ELSE Tok("c", l)
ChildrenHtml == [l \in 1..NLeaf |-> LeafHtml(l)]

\* HtmlDecide with the children serialized straight into the caller's buffer
HtmlDecide_NoScratch(b, new_buf, errs) ==
    IF is_empty(errs) THEN b \o new_buf ELSE b \o new_buf \o FallbackHtml

\* to_html_with_buf, after the children were serialized into new_buf
HtmlDecide(b, new_buf, errs) ==
    IF is_empty(errs) THEN b \o new_buf ELSE b \o FallbackHtml
\* PositionAfter with the children advancing the caller's position itself
PositionAfter_ChildrenAdvance(pos, errs) == "NextChild"

\* the caller's position: the children advanced a copy, the fallback advances it
PositionAfter(pos, errs) == IF is_empty(errs) THEN pos ELSE "NextChild"

InitHtml ==
    /\ InitRegistry
    /\ failing \in SUBSET Leaf
    /\ mode = "to_html"
    /\ InitNoState
    /\ buf \in {<<>>, <<Tok("pre", 0)>>}
    /\ buf0 = buf
    /\ position \in {"FirstChild", "NextChild"}
    /\ position0 = position
    /\ kinds = [l \in Leaf |-> "sync"]
    /\ rx = [l \in Leaf |-> "none"]
    /\ resolved = <<>>
    /\ newBuf = <<>>
    /\ task = "none"
    /\ idx = 0
    /\ myChunks = <<>>
    /\ result = None
    /\ lateThrows = {}
    /\ InitNoNest

to_html_with_buf ==
    /\ phase = "constructed" /\ mode = "to_html"
    /\ CanThrow(Cardinality(failing))
    /\ LET t == AfterChildren
       IN  /\ errors' = t.env.errors
           /\ scNext' = t.env.next
           /\ scErrors' = t.env.recorded
           /\ held' = t.held
           /\ live' = t.env.live
           /\ seeded' = seeded \ t.env.live
           /\ newBuf' = ChildrenHtml
           /\ buf' = HtmlDecide(buf, ChildrenHtml, t.env.errors)
           /\ position' = PositionAfter(position, t.env.errors)
    /\ phase' = "done"
    /\ UNCHANGED <<oldState, nestVars, boundaryId, hasSc, failing, mode, state, childNodes, fallbackNodes,
                   mounted, seenEmpty, childBuilds, calls, buf0, position0,
                   kinds, rx, resolved, task, idx, myChunks, result, lateThrows>>

NextHtml == ErrorBoundary \/ to_html_with_buf

SpecHtml == InitHtml /\ [][NextHtml]_vars

(***************************************************************************)
(* to_html_async_with_buf.                                                 *)
(***************************************************************************)
\* the chunk a leaf pushes into new_buf
LeafChunk(l) ==
    CASE kinds[l] = "sync" -> Sync(LeafHtml(l))
      [] kinds[l] = "async" -> Async(l)
      [] OTHER -> OutOfOrder(l)
ChildrenChunks == [l \in 1..NLeaf |-> LeafChunk(l)]

\* mem::take of suspended_children: the receivers registered beneath
SuspenseChildren(r) == {l \in Leaf : r[l] # "none"}
\* AsyncDecideNow pushing the fallback after the children's chunks
AsyncDecideNow_KeepsChildren(b, new_buf, errs) ==
    IF is_empty(errs) THEN b \o new_buf
    ELSE b \o new_buf \o <<Sync(FallbackHtml[1])>>

\* not waiting for any suspended children: just render
AsyncDecideNow(b, new_buf, errs) ==
    IF is_empty(errs) THEN b \o new_buf ELSE b \o <<Sync(FallbackHtml[1])>>

\* the async chunk pushed into view_buf, which is appended to buf
Deferred == [kind |-> "Async", tok |-> Tok("boundary", 0)]

\* JoinAllReady not waiting for the receivers
JoinAllReady_NoWait(r) == TRUE

\* JoinAllReady counting only the receivers that were signalled
JoinAllReady_OnlySent(r) == \A l \in Leaf : r[l] \in {"none", "sent"}

\* join_all(suspense_children).await is over: every receiver has resolved,
\* by its sender's send or by its sender's drop
JoinAllReady(r) == \A l \in Leaf : r[l] # "pending"

\* the chunk can be taken without waiting
ChunkReady(c) == c.kind = "Sync" \/ \E i \in 1..Len(resolved) : resolved[i] = c.tok[2]

\* FlattenChunk pushing to the front of my_chunks
FlattenChunk_Front(my_chunks, c) ==
    CASE c.kind = "Sync" -> <<c>> \o my_chunks
      [] c.kind = "Async" -> Content(c.tok[2]) \o my_chunks
      [] OTHER -> <<OutOfOrderReady(c.tok[2])>> \o my_chunks
\* FlattenChunk splicing in the chunks an out-of-order chunk resolved to
FlattenChunk_SplicesOutOfOrder(my_chunks, c) ==
    CASE c.kind = "Sync" -> Append(my_chunks, c)
      [] OTHER -> my_chunks \o Content(c.tok[2])

\* one turn of the loop over new_buf.take_chunks()
FlattenChunk(my_chunks, c) ==
    CASE c.kind = "Sync" -> Append(my_chunks, c)
      [] c.kind = "Async" -> my_chunks \o Content(c.tok[2])
      [] OTHER -> Append(my_chunks, OutOfOrderReady(c.tok[2]))
\* DeferredDecide pushing the fallback without clearing my_chunks
DeferredDecide_KeepsChunks(my_chunks, errs) ==
    IF is_empty(errs) THEN my_chunks
    ELSE Append(my_chunks, Sync(FallbackHtml[1]))

\* the end of the deferred chunk: the stream, or the fallback instead
DeferredDecide(my_chunks, errs) ==
    IF is_empty(errs) THEN my_chunks ELSE <<Sync(FallbackHtml[1])>>

InitStream ==
    /\ InitRegistry
    /\ kinds \in [Leaf -> {"sync", "async", "ooo"}]
    /\ failing \in SUBSET {l \in Leaf : kinds[l] = "sync"}
    /\ rx \in [Leaf -> {"none", "pending"}]
    /\ \A l \in Leaf : kinds[l] = "sync" => rx[l] = "none"
    /\ mode = "to_html_async"
    /\ InitNoState
    /\ buf \in {<<>>, <<Sync(Tok("pre", 0))>>}
    /\ buf0 = buf
    /\ position \in {"FirstChild", "NextChild"}
    /\ position0 = position
    /\ resolved = <<>>
    /\ newBuf = <<>>
    /\ task = "none"
    /\ idx = 0
    /\ myChunks = <<>>
    /\ result = None
    /\ lateThrows = {}
    /\ InitNoNest

\* resolve: the children are resolved, every other field is moved as it is
resolve ==
    /\ phase = "constructed" /\ mode = "to_html_async"
    /\ phase' = "resolved"
    /\ UNCHANGED <<oldState, nestVars, hookVars, hasSc, scNext, scErrors, errors, failing,
                   held, mode, state, childNodes, fallbackNodes, mounted,
                   seenEmpty, childBuilds, calls, serverVars>>

\* the synchronous part: the children are serialized into new_buf; with no
\* receiver registered the decision is taken at once, otherwise it is deferred
to_html_async_with_buf ==
    /\ phase \in {"constructed", "resolved"} /\ mode = "to_html_async"
    /\ CanThrow(Cardinality(failing))
    /\ LET t == AfterChildren
       IN  /\ errors' = t.env.errors
           /\ scNext' = t.env.next
           /\ scErrors' = t.env.recorded
           /\ held' = t.held
           /\ live' = t.env.live
           /\ seeded' = seeded \ t.env.live
           /\ newBuf' = ChildrenChunks
           /\ IF SuspenseChildren(rx) = {}
              THEN /\ buf' = AsyncDecideNow(buf, ChildrenChunks, t.env.errors)
                   /\ position' = PositionAfter(position, t.env.errors)
                   /\ phase' = "done"
                   /\ task' = task
              ELSE /\ buf' = Append(buf, Deferred)
                   /\ position' = position
                   /\ phase' = "deferred"
                   /\ task' = "join"
    /\ UNCHANGED <<oldState, nestVars, boundaryId, hasSc, failing, mode, state, childNodes, fallbackNodes,
                   mounted, seenEmpty, childBuilds, calls, buf0, position0,
                   kinds, rx, resolved, idx, myChunks, result, lateThrows>>

\* the deferred chunk gets past join_all
TaskJoin ==
    /\ task = "join"
    /\ JoinAllReady(rx)
    /\ task' = "chunks"
    /\ idx' = 1
    /\ myChunks' = <<>>
    /\ UNCHANGED <<oldState, nestVars, hookVars, hasSc, scNext, scErrors, errors, failing, held, mode, phase,
                   state, childNodes, fallbackNodes, mounted, seenEmpty,
                   childBuilds, calls, buf, buf0, position, position0, kinds,
                   rx, resolved, newBuf, result, lateThrows>>

\* the deferred chunk takes the next chunk of new_buf, awaiting it if need be
TaskChunk ==
    /\ task = "chunks"
    /\ idx <= Len(newBuf)
    /\ ChunkReady(newBuf[idx])
    /\ myChunks' = FlattenChunk(myChunks, newBuf[idx])
    /\ idx' = idx + 1
    /\ UNCHANGED <<oldState, nestVars, hookVars, hasSc, scNext, scErrors, errors, failing, held, mode, phase,
                   state, childNodes, fallbackNodes, mounted, seenEmpty,
                   childBuilds, calls, buf, buf0, position, position0, kinds,
                   rx, resolved, newBuf, task, result, lateThrows>>

\* the deferred chunk reads the registry and resolves
TaskDecide ==
    /\ task = "chunks"
    /\ idx > Len(newBuf)
    /\ result' = Some(DeferredDecide(myChunks, errors))
    /\ task' = "done"
    /\ phase' = "done"
    /\ UNCHANGED <<oldState, nestVars, hookVars, hasSc, scNext, scErrors, errors, failing, held, mode,
                   state, childNodes, fallbackNodes, mounted, seenEmpty,
                   childBuilds, calls, buf, buf0, position, position0, kinds,
                   rx, resolved, newBuf, idx, myChunks, lateThrows>>

\* the async chunk of leaf l resolves
Resolve(l) ==
    /\ phase = "deferred"
    /\ kinds[l] # "sync"
    /\ \A i \in 1..Len(resolved) : resolved[i] # l
    /\ resolved' = Append(resolved, l)
    /\ UNCHANGED <<oldState, nestVars, hookVars, hasSc, scNext, scErrors, errors, failing, held, mode, phase,
                   state, childNodes, fallbackNodes, mounted, seenEmpty,
                   childBuilds, calls, buf, buf0, position, position0, kinds,
                   rx, newBuf, task, idx, myChunks, result, lateThrows>>

\* the suspended leaf l has resolved and signals its receiver
Signal(l) ==
    /\ phase = "deferred"
    /\ rx[l] = "pending"
    /\ rx' = [rx EXCEPT ![l] = "sent"]
    /\ UNCHANGED <<oldState, nestVars, hookVars, hasSc, scNext, scErrors, errors, failing, held, mode, phase,
                   state, childNodes, fallbackNodes, mounted, seenEmpty,
                   childBuilds, calls, buf, buf0, position, position0, kinds,
                   resolved, newBuf, task, idx, myChunks, result, lateThrows>>

\* the suspended leaf l is dropped, and its sender with it
DropSender(l) ==
    /\ phase = "deferred"
    /\ rx[l] = "pending"
    /\ rx' = [rx EXCEPT ![l] = "dropped"]
    /\ UNCHANGED <<oldState, nestVars, hookVars, hasSc, scNext, scErrors, errors, failing, held, mode, phase,
                   state, childNodes, fallbackNodes, mounted, seenEmpty,
                   childBuilds, calls, buf, buf0, position, position0, kinds,
                   resolved, newBuf, task, idx, myChunks, result, lateThrows>>

\* the suspended leaf l throws, after the synchronous pass and before it
\* signals its receiver
SuspendedThrow(l) ==
    /\ rx[l] = "pending"
    /\ phase \in {"deferred", "done"}
    /\ l \notin lateThrows
    /\ CanThrow(1)
    /\ LET t == throw(Env, l)
       IN  /\ errors' = t.env.errors
           /\ scNext' = t.env.next
           /\ scErrors' = t.env.recorded
           /\ held' = [held EXCEPT ![l] = Some(t.key)]
           /\ live' = t.env.live
           /\ seeded' = seeded \ t.env.live
    /\ lateThrows' = lateThrows \cup {l}
    /\ UNCHANGED <<oldState, nestVars, boundaryId, hasSc, failing, mode, phase, state, childNodes,
                   fallbackNodes, mounted, seenEmpty, childBuilds, calls, buf,
                   buf0, position, position0, kinds, rx, resolved, newBuf,
                   task, idx, myChunks, result>>

NextStream ==
    \/ ErrorBoundary
    \/ resolve
    \/ to_html_async_with_buf
    \/ TaskJoin
    \/ TaskChunk
    \/ TaskDecide
    \/ \E l \in Leaf : Resolve(l)
    \/ \E l \in Leaf : Signal(l)
    \/ \E l \in Leaf : DropSender(l)
    \/ \E l \in Leaf : SuspendedThrow(l)

SpecStream == InitStream /\ [][NextStream]_vars

(***************************************************************************)
(* The streamed pass with its deferred chunk polled: the chunk is a future *)
(* in the stream; whenever what it awaits is ready its waker has it polled *)
(* again, so each of its steps is taken once it stays possible.  Nothing   *)
(* is assumed of the children: a receiver may never be signalled, a chunk  *)
(* may never resolve.  No shared context and no leaf that is Err in the    *)
(* synchronous pass: the registry is filled by suspended leaves only.      *)
(***************************************************************************)
InitPolled ==
    /\ InitStream
    /\ ~hasSc
    /\ failing = {}
    /\ buf = <<>>
    /\ position = "FirstChild"

SpecPolled ==
    /\ InitPolled
    /\ [][NextStream]_vars
    /\ WF_vars(TaskJoin)
    /\ WF_vars(TaskChunk)
    /\ WF_vars(TaskDecide)

(***************************************************************************)
(* Every pass of one boundary: a client pass or a server pass.             *)
(***************************************************************************)
ClientModes == {"build", "hydrate", "hydrate_async"}

InitAll == Init \/ InitHtml \/ InitStream

NextAll ==
    \/ mode \in ClientModes /\ Next
    \/ NextHtml
    \/ NextStream

SpecAll == InitAll /\ [][NextAll]_vars

(***************************************************************************)
(* Properties of server rendering.                                         *)
(***************************************************************************)
\* C6: to_html_with_buf appends to the caller's buffer the whole of the
\* children's serialization when the registry is empty after it, and the
\* fallback's serialization and nothing else otherwise, which is the case
\* whenever a child threw.
C6_ChildrenOrFallback ==
    (phase = "done" /\ mode = "to_html") =>
        /\ is_empty(errors) => buf = buf0 \o ChildrenHtml
        /\ ~is_empty(errors) => buf = buf0 \o FallbackHtml
        /\ failing # {} => buf = buf0 \o FallbackHtml

\* C6's case: a child threw while the children were serialized, another did
\* not, and the buffer holds the fallback after what it held before.
C6_Witness ==
    /\ phase = "done" /\ mode = "to_html"
    /\ failing # {} /\ failing # Leaf /\ DOMAIN errors = {held[Min(failing)][1]}
    /\ buf0 # <<>> /\ buf = buf0 \o FallbackHtml

\* the chunks of a stream in document order, async chunks replaced by what
\* they resolve to
DocumentOrderOf(c) ==
    CASE c.kind = "Sync" -> <<c>>
      [] c.kind = "Async" -> Content(c.tok[2])
      [] OTHER -> <<OutOfOrderReady(c.tok[2])>>
RECURSIVE DocumentOrder(_)
DocumentOrder(chunks) ==
    IF chunks = <<>> THEN <<>>
    ELSE DocumentOrderOf(Head(chunks)) \o DocumentOrder(Tail(chunks))

\* C7: the chunks the boundary emits are in the document order in which the
\* children pushed them, whatever the order in which the async chunks
\* resolved.
C7_DocumentOrder ==
    /\ task = "chunks" => myChunks = DocumentOrder(SubSeq(newBuf, 1, idx - 1))
    /\ (task = "done" /\ is_empty(errors)) =>
           Unwrap(result) = DocumentOrder(newBuf)
    /\ (phase = "done" /\ task = "none" /\ mode = "to_html_async"
          /\ is_empty(errors)) => buf = buf0 \o newBuf

\* C7's case: two sibling async chunks, the second resolved first, and the
\* output holds the first one's content before the second one's.
C7_Witness ==
    /\ task = "done" /\ is_empty(errors)
    /\ kinds[1] = "async" /\ kinds[2] = "async"
    /\ \E i, j \in 1..Len(resolved) : i < j /\ resolved[i] = 2 /\ resolved[j] = 1
    /\ SubSeq(Unwrap(result), 1, 4) = Content(1) \o Content(2)

\* C8: the deferred chunk gets past join_all only when every registered
\* receiver has resolved, and an error a suspended leaf threw before
\* signalling its receiver makes it resolve to the fallback.
C8_DecisionAfterReceivers ==
    /\ task \in {"chunks", "done"} => \A l \in Leaf : rx[l] # "pending"
    /\ (task = "done" /\ lateThrows # {}) =>
           Unwrap(result) = <<Sync(FallbackHtml[1])>>

\* C8's case: nothing threw in the synchronous pass, a suspended leaf threw
\* later, and the deferred chunk resolved to the fallback.
C8_Witness ==
    /\ task = "done" /\ lateThrows # {} /\ failing = {}
    /\ DOMAIN errors = {held[l][1] : l \in lateThrows}
    /\ Unwrap(result) = <<Sync(FallbackHtml[1])>>

(***************************************************************************)
(* A pass over several boundaries.  An outer boundary has three children:  *)
(* the leaf "before", an inner boundary whose child is the leaf "inside",  *)
(* and the leaf "after".  A sibling boundary, with the leaf "beside", comes *)
(* after the outer one.  The views are rendered in document order; each    *)
(* entry point activates the hook of its boundary around its children:     *)
(*   the component function     _guard, line 105                           *)
(*   build                      _hook, line 200                            *)
(*   to_html_with_buf           _hook, line 334                            *)
(*   to_html_async_with_buf     _hook, line 370                            *)
(*   hydrate                    _hook, line 469 (the effect's first run)   *)
(* and the guard is dropped when the entry point returns.  A leaf that is  *)
(* Err throws through the hook that is current when it is rendered.        *)
(***************************************************************************)
NestLeaf == {"before", "inside", "after", "beside"}
Passes == {"component", "build", "to_html", "to_html_async", "hydrate"}

\* the synchronous part of the pass, step by step
EnterAt(h) == CASE h = "outer" -> 0 [] h = "inner" -> 2 [] OTHER -> 7
LeafAt(l) ==
    CASE l = "before" -> 1 [] l = "inside" -> 3 [] l = "after" -> 5 [] OTHER -> 8
ExitAt(h) == CASE h = "inner" -> 4 [] h = "outer" -> 6 [] OTHER -> 9
PassEnd == 10

\* set_error_hook: the hook becomes current, the guard keeps the one before
set_error_hook(cur, h) == [current |-> h, guard |-> Some(cur)]
\* dropping the guard makes the hook it kept current again
drop_guard(g) == Unwrap(g)

\* the registry environment of the boundary h
NestEnv(h) == [errors |-> registry[h], next |-> scNext, recorded |-> scErrors,
               id |-> DefaultId, live |-> {}]

InitNest ==
    /\ hasSc = FALSE
    /\ scNext = 0
    /\ scErrors = EmptyMap
    /\ errors = EmptyMap
    /\ held = [l \in Leaf |-> None]
    /\ phase = "new"
    /\ boundaryId = DefaultId
    /\ live = {}
    /\ seeded = {}
    /\ failing = {}
    /\ mode = "nested"
    /\ InitNoState
    /\ InitNoServer
    /\ current = "none"
    /\ guards = [s \in Sites |-> None]
    /\ registry = [h \in Hooks |-> EmptyMap]
    /\ pass \in Passes
    /\ pc = 0
    /\ tasks = [h \in Hooks |-> "none"]
    /\ nestFailing \in SUBSET NestLeaf

singleVars == <<hasSc, scNext, scErrors, errors, failing, held, mode, phase,
                state, childNodes, fallbackNodes, mounted, seenEmpty,
                childBuilds, calls, serverVars, hookVars, oldState>>

\* Enter without the activation
Enter_NoActivation(h) ==
    /\ pass \in Passes /\ pc = EnterAt(h)
    /\ LET a == set_error_hook(current, h)
       IN  /\ current' = current
           /\ guards' = [guards EXCEPT ![<<h, "fn">>] = a.guard]
    /\ pc' = pc + 1
    /\ UNCHANGED <<singleVars, registry, pass, tasks, nestFailing>>

\* the entry point of boundary h activates self.hook and keeps the guard
Enter(h) ==
    /\ pass \in Passes /\ pc = EnterAt(h)
    /\ LET a == set_error_hook(current, h)
       IN  /\ current' = a.current
           /\ guards' = [guards EXCEPT ![<<h, "fn">>] = a.guard]
    /\ pc' = pc + 1
    /\ UNCHANGED <<singleVars, registry, pass, tasks, nestFailing>>

\* the leaf l is rendered: if it is Err it throws through the current hook,
\* and with no hook current the error goes nowhere
LeafRender(l) ==
    /\ pass \in Passes /\ pc = LeafAt(l)
    /\ registry' = IF l \in nestFailing /\ current \in Hooks
                   THEN [registry EXCEPT ![current] =
                            throw(NestEnv(current), l).env.errors]
                   ELSE registry
    /\ pc' = pc + 1
    /\ UNCHANGED <<singleVars, current, guards, pass, tasks, nestFailing>>

\* the entry point of boundary h returns and its guard is dropped; in
\* to_html_async_with_buf it has pushed its deferred chunk, if receivers were
\* registered beneath it
Exit(h) ==
    /\ pass \in Passes /\ pc = ExitAt(h)
    /\ current' = drop_guard(guards[<<h, "fn">>])
    /\ guards' = [guards EXCEPT ![<<h, "fn">>] = None]
    /\ pc' = pc + 1
    /\ \E deferred \in BOOLEAN :
          tasks' = IF pass = "to_html_async" /\ deferred
                   THEN [tasks EXCEPT ![h] = "created"]
                   ELSE tasks
    /\ UNCHANGED <<singleVars, registry, pass, nestFailing>>

\* the deferred chunk of boundary h is polled for the first time: it
\* activates the hook and awaits, its guard alive.  The inner boundary's
\* chunk is among the chunks of the outer boundary's buffer, so when the outer
\* boundary has a deferred chunk, that chunk is the one that polls it.
TaskEnter(h) ==
    /\ pass = "to_html_async" /\ pc = PassEnd
    /\ tasks[h] = "created"
    /\ h = "inner" => tasks["outer"] # "created"
    /\ LET a == set_error_hook(current, h)
       IN  /\ current' = a.current
           /\ guards' = [guards EXCEPT ![<<h, "task">>] = a.guard]
    /\ tasks' = [tasks EXCEPT ![h] = "awaiting"]
    /\ UNCHANGED <<singleVars, registry, pass, pc, nestFailing>>

\* the deferred chunk of boundary h resolves and its guard is dropped
TaskExit(h) ==
    /\ tasks[h] = "awaiting"
    /\ h = "outer" => tasks["inner"] \notin {"created", "awaiting"}
    /\ current' = drop_guard(guards[<<h, "task">>])
    /\ guards' = [guards EXCEPT ![<<h, "task">>] = None]
    /\ tasks' = [tasks EXCEPT ![h] = "done"]
    /\ UNCHANGED <<singleVars, registry, pass, pc, nestFailing>>

\* after a client pass, the effect of boundary h reruns: it activates the hook
EffectEnter(h) ==
    /\ pass \in {"build", "hydrate"} /\ pc = PassEnd
    /\ \A s \in Sites : guards[s] = None
    /\ LET a == set_error_hook(current, h)
       IN  /\ current' = a.current
           /\ guards' = [guards EXCEPT ![<<h, "effect">>] = a.guard]
    /\ UNCHANGED <<singleVars, registry, pass, pc, tasks, nestFailing>>

\* the effect's closure returns and its guard is dropped
EffectExit(h) ==
    /\ guards[<<h, "effect">>] # None
    /\ current' = drop_guard(guards[<<h, "effect">>])
    /\ guards' = [guards EXCEPT ![<<h, "effect">>] = None]
    /\ UNCHANGED <<singleVars, registry, pass, pc, tasks, nestFailing>>

NextNest ==
    \/ \E h \in Hooks : Enter(h)
    \/ \E l \in NestLeaf : LeafRender(l)
    \/ \E h \in Hooks : Exit(h)
    \/ \E h \in Hooks : TaskEnter(h)
    \/ \E h \in Hooks : TaskExit(h)
    \/ \E h \in Hooks : EffectEnter(h)
    \/ \E h \in Hooks : EffectExit(h)

SpecNest == InitNest /\ [][NextNest]_vars

(***************************************************************************)
(* Properties of the registry and the hook.                                *)
(***************************************************************************)
\* C11 as stated: after any sequence of throw and clear on the hook, the
\* registry is empty exactly when no identity that a throw returned is left
\* uncleared.
C11_EmptyIffNoneThrownLeft ==
    is_empty(errors) <=> live = {}

\* C11 amended: the registry is empty exactly when no identity is left
\* uncleared of those the registry was created with and those a throw
\* returned; these identities are the registry's keys.
C11_EmptyIffNoneLeft ==
    /\ is_empty(errors) <=> (live \cup seeded) = {}
    /\ DOMAIN errors = live \cup seeded

\* C11's case: throws and clears have been made and the last clear took the
\* last identity out of the registry.
C11_Witness ==
    /\ mode = "hook" /\ calls = <<"clear">>
    /\ is_empty(errors) /\ live = {}
    /\ \A l \in Leaf : held[l] # None

\* C12: at every point of the pass after the boundary's state exists, the
\* registry is empty if and only if no leaf is failing, a leaf failing from
\* its throw until it clears the identity the throw returned.  Stated for a
\* pass without a shared context, where nothing seeds the registry.
C12_EmptyIffNoneFailing ==
    (HasState /\ ~hasSc) => (is_empty(errors) <=> failing = {})

\* C13: clear with an identity that is not in the registry can always be
\* called, leaves the registry as it was and the built state as it was, and
\* makes no run of the effect due; and clearing an identity twice gives the
\* registry that clearing it once gives.
C13_ClearAbsentNoOp ==
    /\ [](\A id \in Ids : clear(clear(errors, id), id) = clear(errors, id))
    /\ [](phase # "new" => \A id \in Ids : ENABLED HookClear(id))
    /\ [][\A id \in Ids :
            (HookClear(id) /\ id \notin DOMAIN errors) =>
                /\ errors' = errors
                /\ state' = state
                /\ Settled => Settled']_vars

\* C13's case: every leaf is failing, the fallback is shown, and the last
\* step was a clear, which can only have been one of an identity that was not
\* in the registry.
C13_Witness ==
    /\ phase = "built" /\ calls = <<"clear">>
    /\ failing = Leaf /\ ShowingFallback /\ Settled
    /\ Cardinality(DOMAIN errors) = NLeaf

\* C16: throw can always be called; it returns an identity under which the
\* registry holds the error straight afterwards; with a shared context it
\* makes exactly one register_error call, with the hook's own boundary id and
\* the identity it returns, and the context holds the error under it; without
\* one it forwards nothing.
C16_ThrowReturnsKeyOfEntry ==
    /\ [](\A e \in Payloads :
            LET t == throw(Env, e) IN
            /\ t.key \in DOMAIN t.env.errors /\ t.env.errors[t.key] = e
            /\ hasSc => /\ t.forwarded = <<<<boundaryId, t.key, e>>>>
                        /\ t.env.recorded = insert(scErrors, t.key, e)
            /\ ~hasSc => t.forwarded = <<>> /\ t.env.recorded = scErrors)
    /\ []((phase = "constructed" /\ mode = "hook" /\ CanThrow(1)) =>
            \A l \in Leaf, e \in Payloads : ENABLED HookThrow(l, e))
    /\ [][\A l \in Leaf, e \in Payloads : HookThrow(l, e) =>
            LET k == Unwrap(held'[l]) IN
            /\ k \in DOMAIN errors' /\ errors'[k] = e
            /\ \A j \in DOMAIN errors \ {k} :
                   j \in DOMAIN errors' /\ errors'[j] = errors[j]
            /\ hasSc => scErrors' = insert(scErrors, k, e)
            /\ ~hasSc => scErrors' = scErrors]_vars

\* C16's case: with a shared context, a throw has just put a second error
\* into the registry, and the context holds it under the identity returned.
C16_Witness ==
    /\ mode = "hook" /\ calls = <<"throw">> /\ hasSc
    /\ \E l \in Leaf :
          /\ held[l] = Some(scNext)
          /\ errors[scNext] = ContextErr /\ scErrors[scNext] = ContextErr
          /\ Cardinality(DOMAIN errors) > 1

\* C20: calling hydrate_async decides nothing; the initial computation takes
\* the decision from the registry as it is when it runs: the fallback is made,
\* and hydrated, exactly when the registry is non-empty then, whatever it
\* held when hydrate_async was called.
C20_DecisionAtInitial ==
    /\ [][hydrate_async_call => state' = None]_vars
    /\ [][hydrate_async_initial =>
            LET st == Unwrap(state') IN
            /\ IsSome(st.fallback) <=> ~is_empty(errors)
            /\ IsSome(st.fallback) =>
                   Unwrap(st.fallback).how = "hydrated" /\ st.children.how = "built"
            /\ ~IsSome(st.fallback) => st.children.how = "hydrated"]_vars

\* C20's case: the registry was empty when hydrate_async was called, an error
\* was thrown before the initial computation ran, no child threw, and the
\* fallback is the hydrated presentation.
C20_Witness ==
    /\ phase = "awaiting" /\ failing = {} /\ ~hasSc
    /\ \E k \in Ids : DOMAIN errors = {k} /\ errors[k] = ContextErr
    /\ FallbackAttached /\ Unwrap(St.fallback).how = "hydrated"
    /\ St.children.how = "built"

\* C18: a run of the effect that changes the presentation splices the incoming
\* state before the outgoing one and only then unmounts the outgoing one.
\* With the fallback shown and the registry empty: insert the children before
\* the fallback, unmount the fallback, fallback = None.  With the children
\* shown and the registry non-empty: build the fallback, insert it before the
\* children, unmount the children.  The incoming state is attached whenever
\* the outgoing one could anchor it.
C18_SpliceBeforeUnmount ==
    [][EffectStep =>
         LET old == St
             new == Unwrap(state')
             c   == calls'
         IN  /\ (ShowingFallback /\ is_empty(errors)) =>
                    /\ Len(c) \in {2, 3}
                    /\ c[1] = "fallback.insert_before_this"
                    /\ Len(c) = 3 => c[2] = "children.mount"
                    /\ c[Len(c)] = "fallback.unmount"
                    /\ new.fallback = None
                    /\ CanInsertBefore(Unwrap(old.fallback)) => new.children.attached
             /\ (ShowingChildren /\ ~is_empty(errors)) =>
                    /\ Len(c) \in {4, 5}
                    /\ SubSeq(c, 1, 3) = <<"fallback_fn", "fallback.build",
                                           "children.insert_before_this">>
                    /\ Len(c) = 5 => c[4] = "fallback.mount"
                    /\ c[Len(c)] = "children.unmount"
                    /\ IsSome(new.fallback)
                    /\ Unwrap(new.fallback).snap = DOMAIN errors
                    /\ CanInsertBefore(old.children) => Unwrap(new.fallback).attached
                    /\ ~new.children.attached]_vars

\* C18's case: in a hydrated pass the effect has just built the fallback,
\* spliced it before the children and unmounted the children.
C18_Witness ==
    /\ phase = "built" /\ mode = "hydrate_async"
    /\ calls = <<"fallback_fn", "fallback.build", "children.insert_before_this",
                 "fallback.mount", "children.unmount">>
    /\ FallbackAttached /\ ~ChildrenAttached /\ St.children.how = "hydrated"

\* the registries the three closures are compared on
SomeRegistries == {errors, EmptyMap, insert(EmptyMap, DefaultId, ServerErr)}

\* C19: on every state a pass reaches and every registry, the effect closures
\* of build, hydrate and hydrate_async give the same next state and make the
\* same calls, so from equal states and the same registry changes they go
\* through the same states and calls.
C19_SameTransitionFunction ==
    HasState =>
        \A errs \in SomeRegistries :
            /\ BuildEffect(St, errs) = HydrateEffect(St, errs)
            /\ HydrateEffect(St, errs) = HydrateAsyncEffect(St, errs)
            /\ \A errs2 \in SomeRegistries :
                   BuildEffect(BuildEffect(St, errs).st, errs2)
                     = HydrateAsyncEffect(HydrateEffect(St, errs).st, errs2)

\* C19's case: a state made by hydrate, in which a leaf has just thrown, and
\* on which a run of any of the three closures makes the fallback and
\* attaches it.
C19_Witness ==
    /\ phase = "built" /\ mode = "hydrate" /\ St.children.how = "hydrated"
    /\ calls = <<"throw">> /\ ~is_empty(errors) /\ ChildrenAttached
    /\ Len(BuildEffect(St, errors).log) = 5
    /\ Unwrap(HydrateAsyncEffect(St, errors).st.fallback).attached

\* this step is an operation of the boundary that renders the children, who
\* throw if they are failing
RendersChildren ==
    build \/ hydrate \/ hydrate_async_initial \/ to_html_with_buf
      \/ to_html_async_with_buf
\* this step is an operation of the boundary that renders no child
RendersNothing ==
    hydrate_async_call \/ hydrate_async_resolved \/ EffectRun \/ Mount \/ Unmount
      \/ resolve \/ TaskJoin \/ TaskChunk \/ TaskDecide
\* this step is a throw or a clear on the boundary's hook
ThrowOrClear ==
    \/ \E l \in Leaf : LeafFail(l) \/ LeafRecover(l) \/ SuspendedThrow(l)
    \/ ContextThrow
    \/ \E id \in Ids : HookClear(id)
\* the registry after the step is the registry before it with the entries the
\* failing leaves' throws put in, each under the identity the leaf was given
OnlyChildrenThrew ==
    /\ \A k \in DOMAIN errors :
          /\ k \in DOMAIN errors'
          /\ \/ errors'[k] = errors[k]
             \/ \E l \in failing : held'[l] = Some(k) /\ errors'[k] = l
    /\ \A k \in DOMAIN errors' \ DOMAIN errors :
          \E l \in failing : held'[l] = Some(k) /\ errors'[k] = l
    /\ failing = {} => errors' = errors

C14_HookRestored ==
    (\A s \in Sites : guards[s] = None) => current = "none"

\* the errors a registry holds
Range(map) == {map[k] : k \in DOMAIN map}

\* C15: the error of the leaf inside the inner boundary goes into the inner
\* registry and nowhere else, and leaves the outer registry as it was; the
\* error of the outer boundary's child that is rendered after the inner
\* boundary has returned goes into the outer registry and nowhere else.
C15_NearestBoundary ==
    /\ [](Range(registry["inner"]) \subseteq {"inside"})
    /\ [](Range(registry["outer"]) \subseteq {"before", "after"})
    /\ []((pc > LeafAt("inside") /\ "inside" \in nestFailing) =>
            "inside" \in Range(registry["inner"]))
    /\ []((pc > LeafAt("after") /\ "after" \in nestFailing) =>
            "after" \in Range(registry["outer"]))
    /\ [][LeafRender("inside") => registry'["outer"] = registry["outer"]]_vars
    /\ [][LeafRender("after") => registry'["inner"] = registry["inner"]]_vars

\* C15's case: children were serialized, the leaf inside the inner boundary
\* and the outer boundary's later child both threw, and each registry holds
\* its own error only.
C15_Witness ==
    /\ pass = "to_html" /\ pc = PassEnd
    /\ {"inside", "after"} \subseteq nestFailing /\ "before" \notin nestFailing
    /\ Range(registry["inner"]) = {"inside"}
    /\ Range(registry["outer"]) = {"after"}

(***************************************************************************)
(* Properties of the streamed pass without receivers.                      *)
(***************************************************************************)
\* the text of a stream of sync chunks
Text(chunks) == [i \in 1..Len(chunks) |-> chunks[i].tok]

\* C21: with no receiver registered beneath the boundary,
\* to_html_async_with_buf takes the decision from the registry before it
\* returns and awaits nothing: the caller's buffer receives all the chunks of
\* the children's buffer in their order, or one sync chunk holding the
\* fallback's serialization, which is what to_html_with_buf does with text.
C21_NoReceiverIsSynchronous ==
    [][(to_html_async_with_buf /\ SuspenseChildren(rx) = {}) =>
          /\ phase' = "done" /\ task' = "none" /\ result' = None
          /\ resolved' = <<>>
          /\ is_empty(errors') => buf' = buf \o ChildrenChunks
          /\ ~is_empty(errors') => buf' = buf \o <<Sync(FallbackHtml[1])>>
          /\ position' = PositionAfter(position, errors')
          /\ (\A l \in Leaf : kinds[l] = "sync") =>
                Text(buf') = HtmlDecide(Text(buf), ChildrenHtml, errors')]_vars

\* C21's case: no receiver is registered, a child pushed an async chunk that
\* has not resolved, no child threw, and the call is over with the
\* children's chunks after what the buffer held.
C21_Witness ==
    /\ phase = "done" /\ task = "none" /\ mode = "to_html_async"
    /\ SuspenseChildren(rx) = {} /\ kinds[1] = "async" /\ kinds[2] = "sync"
    /\ is_empty(errors) /\ resolved = <<>>
    /\ buf0 # <<>> /\ buf = buf0 \o <<Async(1), Sync(Tok("c", 2))>>

(***************************************************************************)
(* Properties of the deferred chunk.                                       *)
(***************************************************************************)
\* C22: in the suspended path, when the registry is not empty after the
\* receivers and the chunks have resolved, the deferred chunk resolves to
\* one sync chunk holding the fallback's serialization; the chunks of the
\* children, flattened into my_chunks, are discarded and the caller's buffer
\* holds none of them.
C22_FallbackDiscardsChunks ==
    /\ [](task # "none" => buf = Append(buf0, Deferred))
    /\ []((task = "done" /\ ~is_empty(errors)) =>
              /\ Unwrap(result) = <<Sync(FallbackHtml[1])>>
              /\ \A i \in 1..Len(newBuf) : \A j \in 1..Len(Unwrap(result)) :
                     /\ Unwrap(result)[j] # newBuf[i]
                     /\ \A k \in 1..Len(DocumentOrderOf(newBuf[i])) :
                            Unwrap(result)[j] # DocumentOrderOf(newBuf[i])[k])
    /\ [][(TaskDecide /\ ~is_empty(errors)) =>
              /\ myChunks = DocumentOrder(newBuf)
              /\ result' = Some(<<Sync(FallbackHtml[1])>>)
              /\ buf' = buf]_vars

\* C22's case: the children pushed an async chunk and an out-of-order chunk,
\* both were flattened into my_chunks, a suspended child threw, and the
\* deferred chunk resolved to the fallback alone.
C22_Witness ==
    /\ task = "done" /\ ~is_empty(errors)
    /\ kinds[1] = "async" /\ kinds[2] = "ooo"
    /\ myChunks = Content(1) \o <<OutOfOrderReady(2)>>
    /\ lateThrows # {}
    /\ Unwrap(result) = <<Sync(FallbackHtml[1])>>

\* the place in the flattened stream where the chunk at place i of chunks
\* starts
Offset(chunks, i) == Len(DocumentOrder(SubSeq(chunks, 1, i - 1)))

\* C23: flattening keeps an out-of-order chunk as one out-of-order chunk at
\* its place among its siblings: what its siblings before it gave comes
\* before it, what its siblings after it gave comes after it, and the chunks
\* it resolved to are not spliced into the sequence, in whatever order the
\* chunks resolved.
C23_OutOfOrderKeepsPosition ==
    /\ task = "chunks" =>
          \A i \in 1..(idx - 1) : newBuf[i].kind = "OutOfOrder" =>
              /\ myChunks[Offset(newBuf, i) + 1] = OutOfOrderReady(newBuf[i].tok[2])
              /\ ChunkReady(newBuf[i])
    /\ (task = "done" /\ is_empty(errors)) =>
          LET r == Unwrap(result) IN
          \A i \in 1..Len(newBuf) : newBuf[i].kind = "OutOfOrder" =>
              LET p == Offset(newBuf, i) + 1 IN
              /\ r[p].kind = "OutOfOrder" /\ r[p].tok[2] = newBuf[i].tok[2]
              /\ SubSeq(r, 1, p - 1) = DocumentOrder(SubSeq(newBuf, 1, i - 1))
              /\ SubSeq(r, p + 1, Len(r)) =
                     DocumentOrder(SubSeq(newBuf, i + 1, Len(newBuf)))
              /\ \A j \in 1..Len(r) : \A k \in 1..Len(Content(newBuf[i].tok[2])) :
                     r[j] # Content(newBuf[i].tok[2])[k]

\* C23's case: an out-of-order chunk is followed by an async sibling that
\* resolved first, and the output has the out-of-order chunk before the
\* sibling's chunks.
C23_Witness ==
    /\ task = "done" /\ is_empty(errors)
    /\ kinds[1] = "ooo" /\ kinds[2] = "async"
    /\ resolved = <<2, 1>>
    /\ Unwrap(result) = <<OutOfOrderReady(1)>> \o Content(2)

(***************************************************************************)
(* Properties of the built state as a Mountable.                           *)
(***************************************************************************)
\* C24: mount, unmount, insert_before_this and elements of the built state
\* go to the fallback state when there is one and to the child state
\* otherwise, and leave the hidden one as it is: after unmount no element of
\* the boundary is attached, after mount the elements attached are those of
\* the visible presentation.
C24_MountableActsOnVisible ==
    /\ [](HasState =>
            /\ IsSome(St.fallback) => ~St.children.attached
            /\ StateElements(St) = MElements(Visible(St))
            /\ \A n \in 0..MaxNodes :
                  StateInsertBeforeThis(St, Built(n, 0, {})) =
                      InsertBeforeThis(Visible(St), Built(n, 0, {})))
    /\ [][Unmount =>
            /\ AttachedElements(Unwrap(state')) = {}
            /\ Visible(Unwrap(state')) = MUnmount(Visible(St))
            /\ IsSome(St.fallback) => Unwrap(state').children = St.children
            /\ IsSome(Unwrap(state').fallback) = IsSome(St.fallback)]_vars
    /\ [][Mount =>
            /\ AttachedElements(Unwrap(state')) = StateElements(Unwrap(state'))
            /\ Visible(Unwrap(state')) = MMount(Visible(St))
            /\ IsSome(St.fallback) => Unwrap(state').children = St.children
            /\ IsSome(Unwrap(state').fallback) = IsSome(St.fallback)]_vars

\* C24's case: a hydrated boundary showing its fallback was unmounted and
\* mounted again; the fallback's element is attached and the children's is
\* not.
C24_Witness ==
    /\ phase = "built" /\ mode = "hydrate" /\ mounted
    /\ calls = <<"state.mount">>
    /\ ShowingFallback /\ childNodes = 1 /\ fallbackNodes = 1
    /\ AttachedElements(St) = MElements(Unwrap(St.fallback))
    /\ ~St.children.attached

(***************************************************************************)
(* Properties of hydrate_async while its initial value is awaited.         *)
(***************************************************************************)
\* C26: when the awaited initial value arrives the closure runs on it once:
\* whatever the registry did while the value was awaited, the state that
\* hydrate_async returns holds a fallback if and only if the registry is not
\* empty then, and a value that already agreed is returned as it is.
C26_ReconciledAfterAwait ==
    [][hydrate_async_resolved =>
          /\ IsSome(Unwrap(state').fallback) <=> ~is_empty(errors)
          /\ seenEmpty' = Some(is_empty(errors))
          /\ (IsSome(St.fallback) <=> ~is_empty(errors)) => state' = state
          /\ (IsSome(St.fallback) <=> is_empty(errors)) =>
                (IsSome(Unwrap(state').fallback) # IsSome(St.fallback))
          /\ Unwrap(state').children.gen = St.children.gen]_vars

\* C26's case: the children were being hydrated with an empty registry, a
\* leaf threw before the value arrived, and the state hydrate_async returned
\* was reconciled: it holds a built fallback and the children are detached.
C26_Witness ==
    /\ phase = "built" /\ mode = "hydrate_async" /\ Settled
    /\ St.children.how = "hydrated" /\ ~St.children.attached
    /\ ShowingFallback /\ Unwrap(St.fallback).how = "built"
    /\ Cardinality(failing) = 1 /\ DOMAIN errors = {held[Min(failing)][1]}
    /\ calls = <<"fallback_fn", "fallback.build", "children.insert_before_this",
                 "fallback.mount", "children.unmount">>

(***************************************************************************)
(* Properties of rebuild.                                                  *)
(***************************************************************************)
\* C25: rebuild replaces the state by a freshly built one: its children are
\* built anew and it holds a fallback if and only if the new registry is not
\* empty; it is inserted before the old state and then the old state is
\* unmounted, so that the new state's visible presentation, and nothing
\* else, is attached where the old state's was, and nothing of the old state
\* is attached.
C25_RebuildReplaces ==
    [][rebuild =>
         LET new == Unwrap(state')
             was == Unwrap(state)
             c   == calls'
         IN  /\ new.children.how = "built" /\ new.children.gen = childBuilds + 1
             /\ IsSome(new.fallback) <=> ~is_empty(errors')
             /\ \E i, j \in 1..Len(c) :
                    i < j /\ c[i] = "old.insert_before_this" /\ c[j] = "old.unmount"
             /\ AttachedElements(Unwrap(oldState')) = {}
             /\ IsSome(new.fallback) => ~new.children.attached
             /\ Visible(was).attached =>
                    AttachedElements(new) = StateElements(new)
             /\ ~Visible(was).attached => AttachedElements(new) = {}]_vars

(***************************************************************************)
(* Termination of the deferred chunk.                                      *)
(***************************************************************************)
\* every registered receiver was signalled or lost its sender
ReceiversResolved == \A l \in Leaf : rx[l] # "pending"
\* every async and out-of-order chunk of the children has resolved
ChunksResolved ==
    \A l \in Leaf : kinds[l] # "sync" => \E i \in 1..Len(resolved) : resolved[i] = l

\* C27: the deferred chunk resolves, provided that every registered receiver
\* is eventually signalled or has its sender dropped and that every async and
\* out-of-order chunk of the children eventually resolves; a receiver whose
\* sender was dropped counts as resolved and lets the chunk past join_all.
C27_DeferredResolves ==
    /\ []((task = "join" /\ ReceiversResolved) => ENABLED TaskJoin)
    /\ (<>[]ReceiversResolved /\ <>[]ChunksResolved) =>
           [](task = "join" => <>(task = "done"))

\* C27's case: every registered receiver lost its sender without a signal,
\* and the deferred chunk has resolved.
C27_Witness ==
    /\ task = "done" /\ IsSome(result)
    /\ \E l \in Leaf : rx[l] = "dropped"
    /\ \A l \in Leaf : rx[l] # "sent"
    /\ ChunksResolved /\ \E l \in Leaf : kinds[l] # "sync"

(***************************************************************************)
(* Properties of the shared context's record.                              *)
(***************************************************************************)
\* C28: what throw forwarded to the shared context stays recorded there:
\* every entry of the registry is recorded in the context under the same
\* identity, no step takes an identity out of the context, and a clear
\* changes the registry alone, so the context can hold errors of the pass
\* while the registry is empty.
C28_ContextKeepsErrors ==
    /\ [](hasSc => \A k \in DOMAIN errors :
                      k \in DOMAIN scErrors /\ scErrors[k] = errors[k])
    /\ [][\A k \in DOMAIN scErrors :
             /\ k \in DOMAIN scErrors'
             /\ scErrors'[k] # scErrors[k] =>
                   (k \in DOMAIN errors' /\ errors'[k] = scErrors'[k])]_vars
    /\ [][(\E k \in DOMAIN errors : k \notin DOMAIN errors') =>
             scErrors' = scErrors]_vars

\* C28's case: the leaves that threw have recovered and cleared their
\* errors: the registry is empty and the context still holds their errors.
C28_Witness ==
    /\ hasSc /\ phase = "built" /\ calls = <<"clear">>
    /\ is_empty(errors) /\ failing = {}
    /\ \A l \in Leaf : \E k \in DOMAIN scErrors : scErrors[k] = l

(***************************************************************************)
(* Properties of the caller's position.                                    *)
(***************************************************************************)
ServerModes == {"to_html", "to_html_async"}

\* C29: serializing the children leaves the caller's position as it was on
\* entry: when the children are emitted, and in the deferred path whatever
\* is emitted, the position is the one on entry; it differs only after a
\* synchronous decision that serialized the fallback.
C29_ChildrenKeepPosition ==
    /\ position # position0 =>
          /\ mode \in ServerModes /\ phase = "done" /\ task = "none"
          /\ ~is_empty(errors)
    /\ (mode \in ServerModes /\ phase = "done" /\ is_empty(errors)) =>
          position = position0
    /\ task # "none" => position = position0

\* C29's case: to_html_async_with_buf emitted the children, which were
\* serialized from the first position on, and the caller's position is
\* still the first.
C29_Witness ==
    /\ mode = "to_html_async" /\ phase = "done" /\ task = "none"
    /\ is_empty(errors) /\ kinds = [l \in Leaf |-> "sync"]
    /\ buf = buf0 \o ChildrenChunks /\ Len(newBuf) = NLeaf
    /\ position0 = "FirstChild" /\ position = "FirstChild"

====
